---- MODULE Spec2Model ----
(***************************************************************************)
(* The Filtering Core of exa-recruit (src/src/exa_recruit/filter.py):      *)
(* filter_candidates_async fans one _classify_one coroutine out per        *)
(* candidate under a shared asyncio.Semaphore, gathers the results in      *)
(* input order and partitions them by the confidence threshold.            *)
(*                                                                         *)
(* Confidences and thresholds are counted in tenths (6 stands for 0.6).    *)
(***************************************************************************)
EXTENDS Integers, Sequences, FiniteSets, TLC

\* ------------------------------------------------------------------ bounds
MaxCandidates == 2
MaxConcurrency == 2
MaxRetriesBound == 3

\* default of the max_retries parameter of _classify_one
DefaultMaxRetries == 3

\* ------------------------------------------------------------------ inputs
Persons == {"A", "B"}
Confidences == {4, 6}
Thresholds == {0, 6}

RECURSIVE SeqsUpTo(_, _)
SeqsUpTo(S, n) ==
    IF n = 0 THEN {<<>>}
    ELSE LET shorter == SeqsUpTo(S, n - 1)
         IN  shorter \cup {Append(s, x) : s \in shorter, x \in S}

\* The two names are interchangeable, so only the lists that start with "A"
\* are enumerated: duplicates (A,A) and distinct candidates (A,B) both occur.
ListsUpTo(n) == {s \in SeqsUpTo(Persons, n) : s = <<>> \/ s[1] = "A"}

CandidateLists == ListsUpTo(MaxCandidates)

\* ------------------------------------------------------------ JSON values
\* A JSON value of a response, and the Python object json.loads makes of it.
\* Numbers are counted in tenths like the confidences (20200 stands for 2020).
\*   t: "null", "bool", "num", "str", "array" (a non-empty list), or "absent"
\*      for a key the object does not have.
JV(t, b, n, s) == [t |-> t, b |-> b, n |-> n, s |-> s]
JNull == JV("null", FALSE, 0, "")
JBool(b) == JV("bool", b, 0, "")
JNum(n) == JV("num", FALSE, n, "")
JStr(s) == JV("str", FALSE, 0, s)
JArray == JV("array", FALSE, 0, "")
Absent == JV("absent", FALSE, 0, "")
PyNone == JNull

\* ------------------------------------------------- FilterResult (verdicts)
FilterResultOf(m, c, r, company, role, year) ==
    [match |-> m, confidence |-> c, reason |-> r,
     current_company |-> company, current_role |-> role,
     graduation_year |-> year]

FilterResult(m, c, r) == FilterResultOf(m, c, r, PyNone, PyNone, PyNone)

NoResult == FilterResult(FALSE, 0, "(pending)")

\* ------------------------------------------------------------------ texts
\* A JSON document: an object with the six keys of a verdict (each a JSON
\* value or Absent), or a value that is no object (kind = its type).
Doc(kind, m, c, r, company, role, year) ==
    [kind |-> kind, match |-> m, confidence |-> c, reason |-> r,
     current_company |-> company, current_role |-> role,
     graduation_year |-> year]
Object(m, c, r, company, role, year) ==
    Doc("object", m, c, r, company, role, year)
NonObject(kind) == Doc(kind, Absent, Absent, Absent, Absent, Absent, Absent)

\* A text is a sequence of tokens: a blank, a newline, a ``` fence, a word
\* (a language tag, prose, a cut-off piece of JSON), or one JSON document.
Token(t, doc) == [t |-> t, doc |-> doc]
Ws == Token("ws", NonObject("(none)"))
Nl == Token("nl", NonObject("(none)"))
Fence == Token("fence", NonObject("(none)"))
Word == Token("word", NonObject("(none)"))
Json(doc) == Token("json", doc)

IsSpace(tok) == tok.t \in {"ws", "nl"}

\* str.strip()
RECURSIVE LStrip(_)
LStrip(s) == IF s # <<>> /\ IsSpace(Head(s)) THEN LStrip(Tail(s)) ELSE s
RECURSIVE RStrip(_)
RStrip(s) ==
    IF s # <<>> /\ IsSpace(s[Len(s)]) THEN RStrip(SubSeq(s, 1, Len(s) - 1))
    ELSE s
Strip(s) == RStrip(LStrip(s))

StartsWithFence(s) == s # <<>> /\ Head(s).t = "fence"
EndsWithFence(s) == s # <<>> /\ s[Len(s)].t = "fence"

\* text.split("\n", 1)[1]: what follows the first newline
AfterFirstNewline(s) ==
    LET k == CHOOSE k \in 1..Len(s) :
                 s[k].t = "nl" /\ \A j \in 1..(k - 1) : s[j].t # "nl"
    IN  SubSeq(s, k + 1, Len(s))

HasNewline(s) == \E k \in 1..Len(s) : s[k].t = "nl"

StripFencesKeepTagLine(s) ==
    IF StartsWithFence(s)
    THEN LET opened == Tail(s)
             closed == IF EndsWithFence(opened)
                       THEN SubSeq(opened, 1, Len(opened) - 1) ELSE opened
         IN  Strip(closed)
    ELSE s
\* if text.startswith("```"): drop the first line (or the three backticks
\* when there is no newline), drop a final ```, strip again.
StripFences(s) ==
    IF StartsWithFence(s)
    THEN LET opened == IF HasNewline(s) THEN AfterFirstNewline(s) ELSE Tail(s)
             closed == IF EndsWithFence(opened)
                       THEN SubSeq(opened, 1, Len(opened) - 1) ELSE opened
         IN  Strip(closed)
    ELSE s

\* json.loads: the text, blanks aside, must be exactly one JSON document.
json_loads(s) ==
    LET core == Strip(s)
    IN  IF Len(core) = 1 /\ core[1].t = "json"
        THEN [ok |-> TRUE, data |-> core[1].doc]
        ELSE [ok |-> FALSE, data |-> NonObject("(none)")]

\* ------------------------------------------------------- Python coercions
\* bool(x), with data.get's default for an absent key
PyTruthy(v) ==
    CASE v.t = "bool" -> v.b
      [] v.t = "num" -> v.n # 0
      [] v.t = "str" -> v.s # ""
      [] v.t = "array" -> TRUE
      [] OTHER -> FALSE

NumericStrings == {"0.9", "2020"}
StrToFloat(s) == IF s = "0.9" THEN 9 ELSE 20200

\* float(x): [raised, value]
PyFloat(v) ==
    CASE v.t = "absent" -> [raised |-> "", value |-> 0]
      [] v.t = "num" -> [raised |-> "", value |-> v.n]
      [] v.t = "bool" -> [raised |-> "", value |-> IF v.b THEN 10 ELSE 0]
      [] v.t = "str" ->
            IF v.s \in NumericStrings
            THEN [raised |-> "", value |-> StrToFloat(v.s)]
            ELSE [raised |-> "ValueError", value |-> 0]
      [] OTHER -> [raised |-> "TypeError", value |-> 0]

NumStr(n) ==
    CASE n = 0 -> "0"
      [] n = 4 -> "0.4"
      [] n = 6 -> "0.6"
      [] n = 9 -> "0.9"
      [] n = 10 -> "1"
      [] n = 15 -> "1.5"
      [] n = 20200 -> "2020"
      [] OTHER -> "(number)"

\* str(x)
PyStr(v) ==
    CASE v.t = "str" -> v.s
      [] v.t = "num" -> NumStr(v.n)
      [] v.t = "bool" -> IF v.b THEN "True" ELSE "False"
      [] v.t = "null" -> "None"
      [] v.t = "array" -> "[1]"
      [] OTHER -> ""

\* data.get(key): None for an absent key
Get(v) == IF v.t = "absent" THEN PyNone ELSE v

\* ------------------------------------------------------ endpoint behaviour
\* What `await client.chat.completions.create(...)` can produce: a response
\* whose message content is one of ResponseTexts, or a raised exception.
\*   object        a JSON object with "match" and "confidence"
\*   not_json      text json.loads rejects (empty, prose, truncated JSON)
\*   json_array    valid JSON that is no object: data.get raises AttributeError
\*   null_content  content is None: text.strip() raises AttributeError
NoText == [kind |-> "(no text)", match |-> FALSE, confidence |-> 0]

ResponseTexts ==
    {[kind |-> "object", match |-> m, confidence |-> c] :
        m \in BOOLEAN, c \in Confidences}
    \cup {[kind |-> k, match |-> FALSE, confidence |-> 0] :
            k \in {"not_json", "json_array", "null_content"}}

\* Exceptions the request can raise, and the ones the parser raises on a
\* response it cannot handle.  All of them derive from Exception.
RequestErrors == {"RateLimitError", "APITimeoutError"}
ExceptionSubclasses == {"RateLimitError", "APITimeoutError", "AttributeError"}

\* ----------------------------------------------------------- _parse_response
Returned(fr) == [raised |-> "", fr |-> fr]
Raised(exc) == [raised |-> exc, fr |-> NoResult]

\* return FilterResult(match=bool(...), confidence=float(...), ...) for the
\* value json.loads returned; data.get raises when that is no dict.
Coerce(data) ==
    IF data.kind # "object" THEN Raised("AttributeError")
    ELSE LET conf == PyFloat(data.confidence)
         IN  IF conf.raised # "" THEN Raised(conf.raised)
             ELSE Returned(FilterResultOf(
                      IF data.match.t = "absent" THEN FALSE
                      ELSE PyTruthy(data.match),
                      conf.value,
                      PyStr(data.reason),
                      Get(data.current_company),
                      Get(data.current_role),
                      IF PyTruthy(data.graduation_year)
                      THEN JStr(PyStr(data.graduation_year)) ELSE PyNone))

ParseFailure == FilterResult(FALSE, 0, "Failed to parse LLM response")

\* _parse_response on a text given as tokens
ParseText(s) ==
    LET loaded == json_loads(StripFences(Strip(s)))
    IN  IF ~loaded.ok THEN Returned(ParseFailure) ELSE Coerce(loaded.data)

\* The text of a response body of the endpoint.
TextOf(body) ==
    CASE body.kind = "not_json" -> <<Word>>
      [] body.kind = "json_array" -> <<Json(NonObject("array"))>>
      [] OTHER -> <<Json(Object(JBool(body.match), JNum(body.confidence),
                                JStr("one sentence"), Absent, Absent, Absent))>>

\* _parse_response(response.choices[0].message.content); a content of None
\* has no strip().
parse_response(text) ==
    IF text.kind = "null_content" THEN Raised("AttributeError")
    ELSE ParseText(TextOf(text))

\* ------------------------------------------- texts given to _parse_response
BaseDoc ==
    Object(JBool(TRUE), JNum(9), JStr("one sentence"),
           JStr("Acme"), JStr("Engineer"), JStr("2020"))

\* Verdict objects as the prompt asks for them.
WellFormedDocs ==
    {Object(JBool(m), JNum(c), JStr("one sentence"), company, role, year) :
        m \in BOOLEAN, c \in {0, 6, 10},
        company \in {JNull, JStr("Acme")},
        role \in {JNull, JStr("Engineer")},
        year \in {JNull, JStr("2020")}}

\* Objects with one key missing, of another type, or out of range.
OddDocs ==
    {[BaseDoc EXCEPT !.match = v] :
        v \in {Absent, JNull, JStr("yes"), JStr("false"), JStr(""),
               JNum(10), JNum(0), JArray}}
    \cup {[BaseDoc EXCEPT !.confidence = v] :
        v \in {Absent, JNull, JNum(15), JStr("0.9"), JStr("high"),
               JBool(TRUE), JArray}}
    \cup {[BaseDoc EXCEPT !.reason = v] : v \in {Absent, JNull}}
    \cup {[BaseDoc EXCEPT !.current_company = v] :
        v \in {Absent, JStr(""), JNum(0), JBool(FALSE)}}
    \cup {[BaseDoc EXCEPT !.current_role = v] :
        v \in {Absent, JStr(""), JNum(0), JBool(FALSE)}}
    \cup {[BaseDoc EXCEPT !.graduation_year = v] :
        v \in {Absent, JStr(""), JNum(0), JBool(FALSE), JNum(20200)}}

NonObjectDocs == {NonObject(k) : k \in {"array", "str", "num", "null"}}

Docs == {BaseDoc} \cup WellFormedDocs \cup OddDocs \cup NonObjectDocs

Blanks == {<<>>, <<Ws>>, <<Nl>>}
FenceLines == {<<Fence, Nl>>, <<Fence, Word, Nl>>}
Openings == {<<>>, <<Fence>>, <<Fence, Word>>} \cup FenceLines
Closings == {<<>>, <<Fence>>, <<Nl, Fence>>}
Payloads ==
    {<<Json(d)>> : d \in Docs}
    \cup {<<>>, <<Word>>, <<Json(BaseDoc), Word>>, <<Word, Json(BaseDoc)>>}

ParserTexts ==
    {lead \o open \o payload \o close \o trail :
        lead \in Blanks, open \in Openings, payload \in Payloads,
        close \in Closings, trail \in Blanks}

\* ----------------------------------------------------------- _build_criteria
\* A filter_config: None ("none") or a dict.  A key that is missing and a key
\* with an empty value read the same through .get(), so a dict is given by
\* the six values, empty where the key is missing.
Config(kind, company, aliases, roles, years, current, extra) ==
    [kind |-> kind, company |-> company, company_aliases |-> aliases,
     roles |-> roles, graduation_years |-> years,
     require_current |-> current, extra |-> extra]
NoConfig == Config("none", "", <<>>, <<>>, <<>>, FALSE, "")

Configs ==
    {NoConfig} \cup
    {Config("dict", company, aliases, roles, years, current, extra) :
        company \in {"", "Acme"},
        aliases \in {<<>>, <<"ACME Corp">>, <<"ACME Corp", "Acme Inc">>},
        roles \in {<<>>, <<"Engineer">>, <<"Engineer", "Manager">>},
        years \in {<<>>, <<2020>>, <<2020, 2021>>},
        current \in BOOLEAN,
        extra \in {"", "remote only"}}

Queries == {"engineers at Acme", "find engineers"}

\* A string is kept as the sequence of the pieces it was put together from.
\* sep.join(items)
RECURSIVE Join(_, _)
Join(items, sep) ==
    IF items = <<>> THEN <<>>
    ELSE IF Len(items) = 1 THEN <<items[1]>>
    ELSE <<items[1], sep>> \o Join(Tail(items), sep)

\* "\n".join(parts), each part a string in pieces
RECURSIVE JoinLines(_)
JoinLines(parts) ==
    IF parts = <<>> THEN <<>>
    ELSE IF Len(parts) = 1 THEN parts[1]
    ELSE parts[1] \o <<"\n">> \o JoinLines(Tail(parts))

\* str(y) for a graduation year
YearStr(y) == IF y = 2020 THEN "2020" ELSE "2021"

CompanyLabel == "- Target company: "
RolesLabel == "- Target roles: "
YearsLabel == "- Graduation years: "
CurrentLine == "- Must be CURRENTLY at the target company (not former)"
ExtraLabel == "- Additional: "

CompanyPart(cfg) ==
    IF cfg.company # ""
    THEN << <<CompanyLabel, cfg.company>> \o
            (IF cfg.company_aliases # <<>>
             THEN <<" (also known as: ">> \o Join(cfg.company_aliases, ", ")
                      \o <<")">>
             ELSE <<>>) >>
    ELSE <<>>
RolesPart(cfg) ==
    IF cfg.roles # <<>>
    THEN << <<RolesLabel>> \o Join(cfg.roles, ", ") >>
    ELSE <<>>
YearsPart(cfg) ==
    IF cfg.graduation_years # <<>>
    THEN << <<YearsLabel>> \o
            Join([k \in 1..Len(cfg.graduation_years) |->
                      YearStr(cfg.graduation_years[k])], ", ") >>
    ELSE <<>>
CurrentPart(cfg) == IF cfg.require_current THEN << <<CurrentLine>> >> ELSE <<>>
ExtraPart(cfg) ==
    IF cfg.extra # "" THEN << <<ExtraLabel, cfg.extra>> >> ELSE <<>>

\* `if filter_config:` is false for None and for the empty dict
IsTruthyConfig(cfg) == cfg.kind = "dict" /\ cfg # [NoConfig EXCEPT !.kind = "dict"]

build_criteria_roles_first(query, cfg) ==
    IF IsTruthyConfig(cfg)
    THEN LET parts == RolesPart(cfg) \o CompanyPart(cfg) \o YearsPart(cfg)
                          \o CurrentPart(cfg) \o ExtraPart(cfg)
         IN  IF parts # <<>> THEN JoinLines(parts) ELSE <<query>>
    ELSE <<query>>
build_criteria_no_fallback(query, cfg) ==
    IF IsTruthyConfig(cfg)
    THEN JoinLines(CompanyPart(cfg) \o RolesPart(cfg) \o YearsPart(cfg)
                       \o CurrentPart(cfg) \o ExtraPart(cfg))
    ELSE <<query>>
\* _build_criteria(query, filter_config)
build_criteria(query, cfg) ==
    IF IsTruthyConfig(cfg)
    THEN LET parts == CompanyPart(cfg) \o RolesPart(cfg) \o YearsPart(cfg)
                          \o CurrentPart(cfg) \o ExtraPart(cfg)
         IN  IF parts # <<>> THEN JoinLines(parts) ELSE <<query>>
    ELSE <<query>>

\* ------------------------------------------------------------------- state
VARIABLES
    keyPresent,            \* OPENROUTER_API_KEY can be resolved
    concurrency,           \* argument `concurrency`
    confidence_threshold,  \* argument `confidence_threshold`
    candidates,            \* argument `candidates`
    max_retries,           \* parameter `max_retries` of every _classify_one
    tracing,               \* the endpoint double records each worker's events
    pc,                    \* position of filter_candidates_async
    error,                 \* the exception filter_candidates_async raised
    semaphore,             \* the asyncio.Semaphore: constructed?, free permits
    wpc,                   \* position of each _classify_one task
    attempt,               \* loop variable `attempt` of each task
    result,                \* the FilterResult each task returned
    raised,                \* the exception each task let escape
    log,                   \* recorded events of each task (when tracing)
    finished,              \* positions in the order their tasks ended
    matched,
    rejected,
    p_pc,                  \* position of a direct call of _parse_response
    p_text,                \* its argument `text`
    p_out,                 \* what it returned or raised
    c_pc,                  \* position of a direct call of _build_criteria
    c_query,               \* its argument `query`
    c_config,              \* its argument `filter_config`
    c_out                  \* the criteria it returned

inputs == <<keyPresent, concurrency, confidence_threshold, candidates,
            max_retries, tracing>>
workers == <<wpc, attempt, result, raised, log, finished>>
pure == <<p_pc, p_text, p_out, c_pc, c_query, c_config, c_out>>
vars == <<inputs, pc, error, semaphore, workers, matched, rejected, pure>>

N == Len(candidates)
Positions == 1..N

Event(e, d, t) == [ev |-> e, d |-> d, text |-> t]
Logged(i, events) == IF tracing THEN [log EXCEPT ![i] = @ \o events] ELSE log

\* -------------------------------------------------------------------- Init
InitState ==
    /\ pc = "start"
    /\ error = ""
    /\ semaphore = [created |-> FALSE, value |-> 0]
    /\ wpc = [i \in Positions |-> "(not created)"]
    /\ attempt = [i \in Positions |-> 0]
    /\ result = [i \in Positions |-> NoResult]
    /\ raised = [i \in Positions |-> ""]
    /\ log = [i \in Positions |-> <<>>]
    /\ finished = <<>>
    /\ matched = <<>>
    /\ rejected = <<>>

\* No direct call of a pure function is under way.
NoPureCall ==
    /\ p_pc = "idle"
    /\ p_text = <<>>
    /\ p_out = Returned(NoResult)
    /\ c_pc = "idle"
    /\ c_query = ""
    /\ c_config = NoConfig
    /\ c_out = <<>>

\* A call of filter_candidates_async: every task runs with the default
\* max_retries.
Init ==
    /\ keyPresent \in BOOLEAN
    /\ concurrency \in -1..MaxConcurrency
    /\ confidence_threshold \in Thresholds
    /\ candidates \in CandidateLists
    /\ max_retries = DefaultMaxRetries
    /\ tracing = FALSE
    /\ InitState
    /\ NoPureCall

\* One instrumented worker: at most one candidate, max_retries chosen by the
\* caller of _classify_one, every event of the task recorded.
InitWorker ==
    /\ keyPresent \in BOOLEAN
    /\ concurrency \in -1..1
    /\ confidence_threshold \in Thresholds
    /\ candidates \in ListsUpTo(1)
    /\ max_retries \in 1..MaxRetriesBound
    /\ tracing = TRUE
    /\ InitState
    /\ NoPureCall

\* ------------------------------------------------- filter_candidates_async
\* _get_openrouter_key raises RuntimeError when no key is found.
RaiseMissingKey ==
    /\ pc = "start"
    /\ ~keyPresent
    /\ pc' = "raised"
    /\ error' = "RuntimeError"
    /\ UNCHANGED <<inputs, pure, semaphore, workers, matched, rejected>>

\* asyncio.Semaphore(value) raises ValueError for value < 0.
RaiseBadConcurrency ==
    /\ pc = "start"
    /\ keyPresent
    /\ concurrency < 0
    /\ pc' = "raised"
    /\ error' = "ValueError"
    /\ UNCHANGED <<inputs, pure, semaphore, workers, matched, rejected>>

StartRunKeyResolvedLater ==
    /\ pc = "start"
    /\ concurrency >= 0
    /\ semaphore' = [created |-> TRUE, value |-> concurrency]
    /\ wpc' = [i \in Positions |-> "waiting"]
    /\ pc' = "gather"
    /\ UNCHANGED <<inputs, pure, error, attempt, result, raised, log, finished,
                   matched, rejected>>
\* The semaphore is constructed, one task is created per candidate and
\* gather() schedules them all.
StartRun ==
    /\ pc = "start"
    /\ keyPresent
    /\ concurrency >= 0
    /\ semaphore' = [created |-> TRUE, value |-> concurrency]
    /\ wpc' = [i \in Positions |-> "waiting"]
    /\ pc' = "gather"
    /\ UNCHANGED <<inputs, pure, error, attempt, result, raised, log, finished,
                   matched, rejected>>

\* ------------------------------------------------------------ _classify_one
CanAcquireUnbounded(sem) == TRUE
\* `async with semaphore` proceeds only while a permit is free.
CanAcquire(sem) == sem.value > 0

Acquired(sem) == [sem EXCEPT !.value = @ - 1]
ReleasedKeepsPermit(sem) == sem
Released(sem) == [sem EXCEPT !.value = @ + 1]

InRangeInclusive(a, m) == a <= m
\* for attempt in range(max_retries): is there an iteration `a`?
InRange(a, m) == a < m

HasRetryLeftOffByOne(a, m) == a < m
\* `if attempt < max_retries - 1`
HasRetryLeft(a, m) == a < m - 1

RateLimitDelayFixed(a) == 1
RateLimitDelayDoubled(a) == 2 * a
\* asyncio.sleep(2 ** attempt)
RateLimitDelay(a) == 2 ^ a

\* asyncio.sleep(1)
ErrorDelay == 1

ExceptClauseApiErrorsOnly(exc) ==
    IF exc = "RateLimitError" THEN "RateLimitError"
    ELSE IF exc \in {"APITimeoutError"} THEN "Exception"
    ELSE "(uncaught)"
ExceptClauseExceptionFirst(exc) ==
    IF exc \in ExceptionSubclasses THEN "Exception"
    ELSE "(uncaught)"
\* The except clause that catches `exc`: RateLimitError first, then Exception.
ExceptClause(exc) ==
    IF exc = "RateLimitError" THEN "RateLimitError"
    ELSE IF exc \in ExceptionSubclasses THEN "Exception"
    ELSE "(uncaught)"

RateLimitedResult == FilterResult(FALSE, 0, "Rate limited after retries")
ApiErrorResult(exc) == FilterResult(FALSE, 0, "API error: " \o exc)
UnknownErrorResult == FilterResult(FALSE, 0, "Unknown error")

\* `return person, fr`: the task ends, leaving `async with` frees the permit.
Return(i, fr, events) ==
    /\ wpc' = [wpc EXCEPT ![i] = "done"]
    /\ result' = [result EXCEPT ![i] = fr]
    /\ semaphore' = Released(semaphore)
    /\ finished' = Append(finished, i)
    /\ log' = Logged(i, events)
    /\ UNCHANGED <<attempt, raised>>

\* An exception no clause catches leaves `async with` and ends the task.
Propagate(i, exc, events) ==
    /\ wpc' = [wpc EXCEPT ![i] = "raised"]
    /\ raised' = [raised EXCEPT ![i] = exc]
    /\ semaphore' = Released(semaphore)
    /\ finished' = Append(finished, i)
    /\ log' = Logged(i, events)
    /\ UNCHANGED <<attempt, result>>

\* Iteration `a` of the loop starts by issuing the request; when range() is
\* exhausted the task falls through to the trailing return.
Iterate(i, a, sem, events) ==
    IF InRange(a, max_retries)
    THEN /\ wpc' = [wpc EXCEPT ![i] = "request"]
         /\ attempt' = [attempt EXCEPT ![i] = a]
         /\ semaphore' = sem
         /\ log' = Logged(i, events \o <<Event("request", a, NoText)>>)
         /\ UNCHANGED <<result, raised, finished>>
    ELSE /\ wpc' = [wpc EXCEPT ![i] = "done"]
         /\ result' = [result EXCEPT ![i] = UnknownErrorResult]
         /\ semaphore' = Released(sem)
         /\ finished' = Append(finished, i)
         /\ log' = Logged(i, events)
         /\ UNCHANGED <<attempt, raised>>

\* The except clauses of the loop body, for exception `exc` at this attempt.
OnException(i, exc, events) ==
    LET clause == ExceptClause(exc)
        a == attempt[i]
        failed == events \o <<Event(exc, a, NoText)>>
    IN  CASE clause = "(uncaught)" -> Propagate(i, exc, failed)
          [] clause = "RateLimitError" ->
                IF HasRetryLeft(a, max_retries)
                THEN /\ wpc' = [wpc EXCEPT ![i] = "sleep"]
                     /\ log' = Logged(i, failed \o
                                <<Event("sleep", RateLimitDelay(a), NoText)>>)
                     /\ UNCHANGED <<attempt, result, raised, finished, semaphore>>
                ELSE Return(i, RateLimitedResult, failed)
          [] OTHER ->
                IF HasRetryLeft(a, max_retries)
                THEN /\ wpc' = [wpc EXCEPT ![i] = "sleep"]
                     /\ log' = Logged(i, failed \o
                                <<Event("sleep", ErrorDelay, NoText)>>)
                     /\ UNCHANGED <<attempt, result, raised, finished, semaphore>>
                ELSE Return(i, ApiErrorResult(exc), failed)

OnResponseContinue(i, text) ==
    LET got == <<Event("response", attempt[i], text)>>
        parsed == parse_response(text)
    IN  IF parsed.raised # ""
        THEN OnException(i, parsed.raised, got)
        ELSE Iterate(i, attempt[i] + 1, semaphore, got)
\* The request returned: parse the content and return, unless parsing raises.
OnResponse(i, text) ==
    LET got == <<Event("response", attempt[i], text)>>
        parsed == parse_response(text)
    IN  IF parsed.raised # ""
        THEN OnException(i, parsed.raised, got)
        ELSE Return(i, parsed.fr, got)

\* The task gets its permit and enters the loop.  Any waiting task may be the
\* next to get a permit: a superset of the FIFO order asyncio wakes them in.
Acquire(i) ==
    /\ pc = "gather"
    /\ wpc[i] = "waiting"
    /\ CanAcquire(semaphore)
    /\ Iterate(i, 0, Acquired(semaphore), <<>>)
    /\ UNCHANGED <<inputs, pure, pc, error, matched, rejected>>

\* The endpoint answers the request of task i with a response.
RequestSucceeds(i, text) ==
    /\ pc = "gather"
    /\ wpc[i] = "request"
    /\ OnResponse(i, text)
    /\ UNCHANGED <<inputs, pure, pc, error, matched, rejected>>

\* The request of task i raises (rate limit, timeout).
RequestFails(i, exc) ==
    /\ pc = "gather"
    /\ wpc[i] = "request"
    /\ OnException(i, exc, <<>>)
    /\ UNCHANGED <<inputs, pure, pc, error, matched, rejected>>

\* The backoff sleep of task i is over: next iteration of the loop.
WakeUp(i) ==
    /\ pc = "gather"
    /\ wpc[i] = "sleep"
    /\ Iterate(i, attempt[i] + 1, semaphore, <<>>)
    /\ UNCHANGED <<inputs, pure, pc, error, matched, rejected>>

\* ---------------------------------------- gather and the partition loop
OutcomeOfNextTask(i) ==
    [pos |-> i, person |-> candidates[i], fr |-> result[(i % N) + 1]]
\* `return person, result`: the pair task i returns
Outcome(i) == [pos |-> i, person |-> candidates[i], fr |-> result[i]]

GatherAsCompleted == [k \in 1..Len(finished) |-> Outcome(finished[k])]
\* asyncio.gather returns the results in the order of the awaitables.
GatherResults == [i \in Positions |-> Outcome(i)]

IsMatchedByConfidence(fr, threshold) == fr.confidence >= threshold
IsMatchedStrict(fr, threshold) == fr.match /\ fr.confidence > threshold
\* `if fr.match and fr.confidence >= confidence_threshold`
IsMatched(fr, threshold) == fr.match /\ fr.confidence >= threshold

RECURSIVE PartitionLoop(_, _, _, _, _)
PartitionLoop(results, k, threshold, m, r) ==
    IF k > Len(results) THEN <<m, r>>
    ELSE IF IsMatched(results[k].fr, threshold)
         THEN PartitionLoop(results, k + 1, threshold, Append(m, results[k]), r)
         ELSE PartitionLoop(results, k + 1, threshold, m, Append(r, results[k]))

RECURSIVE PartitionLoopElif(_, _, _, _, _)
PartitionLoopElif(results, k, threshold, m, r) ==
    IF k > Len(results) THEN <<m, r>>
    ELSE IF IsMatched(results[k].fr, threshold)
         THEN PartitionLoopElif(results, k + 1, threshold,
                                Append(m, results[k]), r)
         ELSE IF ~results[k].fr.match
         THEN PartitionLoopElif(results, k + 1, threshold,
                                m, Append(r, results[k]))
         ELSE PartitionLoopElif(results, k + 1, threshold, m, r)

PartitionElif(results, threshold) ==
    PartitionLoopElif(results, 1, threshold, <<>>, <<>>)
\* matched = []; rejected = []; for person, fr in results: ...
Partition(results, threshold) ==
    PartitionLoop(results, 1, threshold, <<>>, <<>>)

\* `await asyncio.gather(*tasks)` ends when every task has returned, or as
\* soon as one has raised; then the results are partitioned and returned.
GatherCompletes ==
    /\ pc = "gather"
    /\ \/ \A i \in Positions : wpc[i] = "done"
       \/ \E i \in Positions : wpc[i] = "raised"
    /\ IF \E i \in Positions : wpc[i] = "raised"
       THEN /\ pc' = "raised"
            /\ error' = raised[finished[
                   CHOOSE k \in 1..Len(finished) :
                       /\ wpc[finished[k]] = "raised"
                       /\ \A j \in 1..(k - 1) : wpc[finished[j]] # "raised"]]
            /\ UNCHANGED <<matched, rejected>>
       ELSE LET parts == Partition(GatherResults, confidence_threshold)
            IN  /\ matched' = parts[1]
                /\ rejected' = parts[2]
                /\ pc' = "returned"
                /\ UNCHANGED error
    /\ UNCHANGED <<inputs, pure, semaphore, workers>>

\* -------------------------------------------------------------------- Next
Next ==
    \/ RaiseMissingKey
    \/ RaiseBadConcurrency
    \/ StartRun
    \/ \E i \in Positions : Acquire(i)
    \/ \E i \in Positions : \E text \in ResponseTexts : RequestSucceeds(i, text)
    \/ \E i \in Positions : \E exc \in RequestErrors : RequestFails(i, exc)
    \/ \E i \in Positions : WakeUp(i)
    \/ GatherCompletes

Spec == Init /\ [][Next]_vars

SpecWorker == InitWorker /\ [][Next]_vars

\* A call of filter_candidates_async with every task instrumented: the
\* events of each task are recorded while the tasks interleave.
InitTraced ==
    /\ keyPresent \in BOOLEAN
    /\ concurrency \in -1..MaxConcurrency
    /\ confidence_threshold \in Thresholds
    /\ candidates \in CandidateLists
    /\ max_retries = DefaultMaxRetries
    /\ tracing = TRUE
    /\ InitState
    /\ NoPureCall

SpecTraced == InitTraced /\ [][Next]_vars

\* confidence_threshold is any float: below 0.0 too (tenths)
NegativeThresholds == {-1}

\* One instrumented worker called with any retry budget an int can give,
\* none (0) and negative included.
InitAnyBudget ==
    /\ keyPresent \in BOOLEAN
    /\ concurrency \in -1..1
    /\ confidence_threshold \in Thresholds \cup NegativeThresholds
    /\ candidates \in ListsUpTo(1)
    /\ max_retries \in -1..MaxRetriesBound
    /\ tracing = TRUE
    /\ InitState
    /\ NoPureCall

SpecAnyBudget == InitAnyBudget /\ [][Next]_vars

\* ------------------------------------------- _parse_response called alone
NoRun ==
    /\ keyPresent = TRUE
    /\ concurrency = 1
    /\ confidence_threshold = 6
    /\ candidates = <<>>
    /\ max_retries = DefaultMaxRetries
    /\ tracing = FALSE
    /\ InitState

InitParser ==
    /\ NoRun
    /\ p_pc = "call"
    /\ p_text \in ParserTexts
    /\ p_out = Returned(NoResult)
    /\ c_pc = "idle"
    /\ c_query = ""
    /\ c_config = NoConfig
    /\ c_out = <<>>

ParseStep ==
    /\ p_pc = "call"
    /\ p_out' = ParseText(p_text)
    /\ p_pc' = "done"
    /\ UNCHANGED <<inputs, pc, error, semaphore, workers, matched, rejected,
                   p_text, c_pc, c_query, c_config, c_out>>

SpecParser == InitParser /\ [][ParseStep]_vars

\* ------------------------------------------- _build_criteria called alone
InitCriteria ==
    /\ NoRun
    /\ p_pc = "idle"
    /\ p_text = <<>>
    /\ p_out = Returned(NoResult)
    /\ c_pc = "call"
    /\ c_query \in Queries
    /\ c_config \in Configs
    /\ c_out = <<>>

BuildStep ==
    /\ c_pc = "call"
    /\ c_out' = build_criteria(c_query, c_config)
    /\ c_pc' = "done"
    /\ UNCHANGED <<inputs, pc, error, semaphore, workers, matched, rejected,
                   p_pc, p_text, p_out, c_query, c_config>>

SpecCriteria == InitCriteria /\ [][BuildStep]_vars

\* ------------------------------------------------------ reading the state
Done == pc \in {"returned", "raised"}

InFlight == {i \in Positions : wpc[i] = "request"}

Occurrences(list, i) == Cardinality({k \in 1..Len(list) : list[k].pos = i})

Ascending(list) ==
    \A j, k \in 1..Len(list) : j < k => list[j].pos < list[k].pos

OwnCandidates(list) ==
    \A k \in 1..Len(list) :
        /\ list[k].pos \in Positions
        /\ list[k].person = candidates[list[k].pos]
        /\ list[k].fr = result[list[k].pos]

\* C1: when filter_candidates_async returns, every input position is in
\* exactly one of matched and rejected (with its own candidate record), so
\* len(matched) + len(rejected) = N, whatever the endpoint did.
PartitionComplete ==
    pc = "returned" =>
        /\ Len(matched) + Len(rejected) = N
        /\ \A i \in Positions :
               Occurrences(matched, i) + Occurrences(rejected, i) = 1
        /\ OwnCandidates(matched)
        /\ OwnCandidates(rejected)

\* A run over the duplicated candidate (A, A) in which one task exhausted its
\* retries on rate limits and the other was matched.
PartitionCompleteWitness ==
    /\ pc = "returned"
    /\ N = 2
    /\ candidates[1] = candidates[2]
    /\ Len(matched) = 1
    /\ Len(rejected) = 1
    /\ rejected[1].fr = RateLimitedResult

\* C2: an outcome is in matched exactly when its verdict has match = true and
\* confidence >= threshold (the boundary included); every outcome in rejected
\* has match = false or confidence < threshold.
PartitionCorrect ==
    pc = "returned" =>
        /\ \A i \in Positions :
               Occurrences(matched, i) > 0 <=>
                   (result[i].match /\ result[i].confidence >= confidence_threshold)
        /\ \A k \in 1..Len(rejected) :
               \/ ~rejected[k].fr.match
               \/ rejected[k].fr.confidence < confidence_threshold

\* A matched outcome whose confidence equals the threshold, next to a rejected
\* one with match = true below the threshold.
PartitionCorrectWitness ==
    /\ pc = "returned"
    /\ confidence_threshold = 6
    /\ \E k \in 1..Len(matched) : matched[k].fr.confidence = confidence_threshold
    /\ \E k \in 1..Len(rejected) : rejected[k].fr.match

\* C3: matched and rejected are each in input order, whatever order the tasks
\* ended in.
OrderPreserved ==
    pc = "returned" => Ascending(matched) /\ Ascending(rejected)

\* The first task retried and ended after the second, and both outcomes are in
\* the same list.
OrderPreservedWitness ==
    /\ pc = "returned"
    /\ finished = <<2, 1>>
    /\ attempt[1] > 0
    /\ Len(matched) = 2 \/ Len(rejected) = 2

\* C4: at most `concurrency` requests are issued and not yet completed.
ConcurrencyBound ==
    semaphore.created => Cardinality(InFlight) <= concurrency

\* More candidates than permits: every permit is in use by a request, one of
\* them a retry, while another task waits for a permit.
ConcurrencyBoundWitness ==
    /\ N > concurrency
    /\ concurrency >= 1
    /\ Cardinality(InFlight) = concurrency
    /\ \E i \in InFlight : attempt[i] > 0
    /\ \E i \in Positions : wpc[i] = "waiting"

\* C5: a task never lets an error escape: whatever the endpoint does it ends
\* by returning one (candidate, verdict) pair, so filter_candidates_async never
\* raises an error that came out of a task.
WorkerNeverRaises ==
    /\ \A i \in Positions :
           /\ wpc[i] # "raised"
           /\ raised[i] = ""
           /\ Cardinality({k \in 1..Len(finished) : finished[k] = i})
                  = (IF wpc[i] = "done" THEN 1 ELSE 0)
           /\ wpc[i] = "done" => result[i] # NoResult
    /\ pc = "raised" => error \in {"RuntimeError", "ValueError"}

\* The first task failed for good on a response it could not read (three
\* times), the second was matched, and the run returned both.
WorkerNeverRaisesWitness ==
    /\ pc = "returned"
    /\ N = 2
    /\ result[1] = ApiErrorResult("AttributeError")
    /\ Len(matched) = 1
    /\ matched[1].pos = 2

NothingStarted ==
    /\ ~semaphore.created
    /\ \A i \in Positions : wpc[i] = "(not created)" /\ result[i] = NoResult
    /\ finished = <<>>
    /\ matched = <<>>
    /\ rejected = <<>>

RunAlwaysCompletes == Done \/ ENABLED Next

\* ----------------------------------------------- reading a task's events
RECURSIVE SelectEvents(_, _)
SelectEvents(L, kinds) ==
    IF L = <<>> THEN <<>>
    ELSE IF Head(L).ev \in kinds
         THEN <<Head(L)>> \o SelectEvents(Tail(L), kinds)
         ELSE SelectEvents(Tail(L), kinds)

Requests(i) == SelectEvents(log[i], {"request"})
Failures(i) == SelectEvents(log[i], ExceptionSubclasses)
Sleeps(i) == SelectEvents(log[i], {"sleep"})
\* the responses the task could parse, each of which makes it return
Successes(i) ==
    LET R == SelectEvents(log[i], {"response"})
    IN  SelectSeq(R, LAMBDA e : parse_response(e.text).raised = "")

OnlyRateLimits(F) == \A k \in 1..Len(F) : F[k].ev = "RateLimitError"

\* C8: a task all of whose attempts failed has issued exactly max_retries
\* requests and returned match = false, confidence = 0.0; with the reason
\* "Rate limited after retries" when every failure was a rate limit.  No task
\* ever issues more than max_retries requests.
ExhaustedRetries ==
    \A i \in Positions :
        /\ Len(Requests(i)) <= max_retries
        /\ (wpc[i] = "done" /\ Len(Failures(i)) = Len(Requests(i))) =>
               /\ Len(Requests(i)) = max_retries
               /\ ~result[i].match
               /\ result[i].confidence = 0
               /\ OnlyRateLimits(Failures(i)) => result[i] = RateLimitedResult

\* Three rate limits in a row with max_retries = 3.
ExhaustedRetriesWitness ==
    /\ N = 1
    /\ max_retries = 3
    /\ wpc[1] = "done"
    /\ Len(Failures(1)) = 3
    /\ OnlyRateLimits(Failures(1))

\* C9: a task that was rate limited max_retries - 1 times and then got a
\* verdict returns that verdict, and the delays it slept are 1, 2, 4, ...:
\* each the double of the one before.
RetryThenSucceed ==
    \A i \in Positions :
        (/\ wpc[i] = "done"
         /\ Len(Failures(i)) = max_retries - 1
         /\ OnlyRateLimits(Failures(i))
         /\ Len(Successes(i)) = 1) =>
            /\ result[i] = parse_response(Successes(i)[1].text).fr
            /\ Successes(i)[1].text.kind = "object" =>
                   /\ result[i].match = Successes(i)[1].text.match
                   /\ result[i].confidence = Successes(i)[1].text.confidence
            /\ Len(Sleeps(i)) = max_retries - 1
            /\ \A k \in 1..Len(Sleeps(i)) : Sleeps(i)[k].d = 2 ^ (k - 1)
            /\ \A k \in 2..Len(Sleeps(i)) : Sleeps(i)[k - 1].d < Sleeps(i)[k].d

\* Two rate limits, then a match with confidence 0.6, with max_retries = 3.
RetryThenSucceedWitness ==
    /\ N = 1
    /\ max_retries = 3
    /\ wpc[1] = "done"
    /\ Len(Failures(1)) = 2
    /\ OnlyRateLimits(Failures(1))
    /\ result[1] = FilterResult(TRUE, 6, "one sentence")
    /\ Len(Sleeps(1)) = 2

\* C10: once an attempt succeeds the task has returned: the parsed response is
\* the last event, no request or sleep follows it, at most one attempt
\* succeeds, and a task that returned issued between 1 and max_retries
\* requests.
SuccessShortCircuits ==
    \A i \in Positions :
        /\ Len(Successes(i)) <= 1
        /\ Len(Successes(i)) = 1 =>
               /\ wpc[i] = "done"
               /\ log[i][Len(log[i])] = Successes(i)[1]
        /\ Len(Requests(i)) <= max_retries
        /\ wpc[i] = "done" => Len(Requests(i)) >= 1

\* Success at the second of three attempts: two requests, one sleep.
SuccessShortCircuitsWitness ==
    /\ N = 1
    /\ max_retries = 3
    /\ wpc[1] = "done"
    /\ Len(Successes(1)) = 1
    /\ Len(Requests(1)) = 2
    /\ Len(Sleeps(1)) = 1

\* C11: a task holds a permit only while its request is in flight: the permits
\* taken are exactly the requests in flight (none is held by a sleeping task),
\* so a waiting task can start whenever fewer than `concurrency` requests are
\* in flight.
PermitOnlyWhileInFlight ==
    (semaphore.created /\ pc = "gather") =>
        /\ semaphore.value = concurrency - Cardinality(InFlight)
        /\ \A i \in Positions :
               (wpc[i] = "waiting" /\ Cardinality(InFlight) < concurrency)
                   => ENABLED Acquire(i)

\* C12: when the last of max_retries attempts fails, the verdict is match =
\* false, confidence = 0.0, with the reason "Rate limited after retries" for a
\* rate limit and "API error: <description>" for any other error, whatever
\* the earlier failures were.
TerminalReasonFollowsLastError ==
    \A i \in Positions :
        (wpc[i] = "done" /\ Len(Failures(i)) = max_retries) =>
            LET last == Failures(i)[max_retries]
            IN  /\ ~result[i].match
                /\ result[i].confidence = 0
                /\ last.ev = "RateLimitError" =>
                       result[i].reason = "Rate limited after retries"
                /\ last.ev # "RateLimitError" =>
                       result[i].reason = "API error: " \o last.ev

\* Two rate limits and then a timeout at the third and last attempt.
TerminalReasonFollowsLastErrorWitness ==
    /\ N = 1
    /\ max_retries = 3
    /\ wpc[1] = "done"
    /\ Len(Failures(1)) = 3
    /\ Failures(1)[1].ev = "RateLimitError"
    /\ Failures(1)[2].ev = "RateLimitError"
    /\ Failures(1)[3].ev = "APITimeoutError"
    /\ result[1].reason = "API error: APITimeoutError"

\* C13: a response whose body is no JSON verdict object ends the task at that
\* attempt with the parse-failure verdict: it is the task's last event.
ParseFailureIsTerminal ==
    \A i \in Positions :
        \A k \in 1..Len(log[i]) :
            (log[i][k].ev = "response" /\ log[i][k].text.kind # "object") =>
                /\ k = Len(log[i])
                /\ wpc[i] = "done"
                /\ result[i] =
                       FilterResult(FALSE, 0, "Failed to parse LLM response")

\* ------------------------------------------------ reading a parser call
FencedForms(d) ==
    {lead \o open \o <<Json(d)>> \o <<Nl, Fence>> \o trail :
        lead \in Blanks, open \in FenceLines, trail \in Blanks}

\* the verdict whose fields are the values of a well-formed object
VerdictOf(d) ==
    FilterResultOf(d.match.b, d.confidence.n, d.reason.s,
                   d.current_company, d.current_role, d.graduation_year)

\* C14: _parse_response returns a verdict for every text and never raises.
ParserNeverRaises ==
    p_pc = "done" => p_out.raised = ""

\* C15: a well-formed verdict object parses to a verdict with the same field
\* values, and wrapped in a code fence (a ``` line with or without a language
\* tag before it, a ``` line after it, blanks around) it parses to the same
\* verdict as bare.
FenceRoundTrip ==
    p_pc = "done" =>
        \A d \in WellFormedDocs :
            (p_text = <<Json(d)>> \/ p_text \in FencedForms(d)) =>
                /\ p_out = Returned(VerdictOf(d))
                /\ p_out = ParseText(<<Json(d)>>)

\* A matching verdict with all three extracted fields, behind a ```json line
\* and before a closing ``` line, with a blank in front and a newline after.
FenceRoundTripWitness ==
    /\ p_pc = "done"
    /\ p_text = <<Ws, Fence, Word, Nl,
                  Json(Object(JBool(TRUE), JNum(6), JStr("one sentence"),
                              JStr("Acme"), JStr("Engineer"), JStr("2020"))),
                  Nl, Fence, Nl>>
    /\ p_out.fr.match
    /\ p_out.fr.graduation_year = JStr("2020")

\* C16: every verdict produced, parsed from a response or made for a terminal
\* failure, has a confidence within [0.0, 1.0].
ConfidenceInRange ==
    /\ \A i \in Positions : result[i].confidence \in 0..10
    /\ (p_pc = "done" /\ p_out.raised = "") => p_out.fr.confidence \in 0..10

\* The lines of a string: its pieces split at every "\n"
RECURSIVE SplitLines(_)
SplitLines(s) ==
    IF \A k \in 1..Len(s) : s[k] # "\n" THEN <<s>>
    ELSE LET n == CHOOSE k \in 1..Len(s) :
                      s[k] = "\n" /\ \A j \in 1..(k - 1) : s[j] # "\n"
         IN  <<SubSeq(s, 1, n - 1)>> \o SplitLines(SubSeq(s, n + 1, Len(s)))

Pieces(line) == {line[k] : k \in 1..Len(line)}
Items(list) == {list[k] : k \in 1..Len(list)}

\* The labels of the populated fields, in the order the contract fixes
ExpectedLabels(cfg) ==
    (IF cfg.company # "" THEN <<CompanyLabel>> ELSE <<>>)
    \o (IF cfg.roles # <<>> THEN <<RolesLabel>> ELSE <<>>)
    \o (IF cfg.graduation_years # <<>> THEN <<YearsLabel>> ELSE <<>>)
    \o (IF cfg.require_current THEN <<CurrentLine>> ELSE <<>>)
    \o (IF cfg.extra # "" THEN <<ExtraLabel>> ELSE <<>>)

LineOf(lines, label) == CHOOSE k \in 1..Len(lines) : lines[k][1] = label

\* C17: for a structured spec with a line-producing field populated,
\* _build_criteria returns one line per populated field, joined by newlines,
\* in the order company (aliases in parentheses after it), roles, graduation
\* years, must-be-current sentence, extra; each line carries its field's
\* values.
CriteriaLineOrder ==
    (c_pc = "done" /\ c_config.kind = "dict"
        /\ ExpectedLabels(c_config) # <<>>) =>
        LET lines == SplitLines(c_out)
            first == [k \in 1..Len(lines) |-> lines[k][1]]
        IN  /\ first = ExpectedLabels(c_config)
            /\ c_config.company # "" =>
                   LET l == lines[LineOf(lines, CompanyLabel)]
                   IN  /\ l[2] = c_config.company
                       /\ Items(c_config.company_aliases) \subseteq Pieces(l)
                       /\ c_config.company_aliases # <<>> =>
                              /\ l[3] = " (also known as: "
                              /\ l[Len(l)] = ")"
            /\ c_config.roles # <<>> =>
                   Items(c_config.roles)
                       \subseteq Pieces(lines[LineOf(lines, RolesLabel)])
            /\ c_config.graduation_years # <<>> =>
                   {YearStr(y) : y \in Items(c_config.graduation_years)}
                       \subseteq Pieces(lines[LineOf(lines, YearsLabel)])
            /\ c_config.extra # "" =>
                   c_config.extra
                       \in Pieces(lines[LineOf(lines, ExtraLabel)])

CriteriaLineOrderWitness ==
    /\ c_pc = "done"
    /\ c_config.company = "Acme"
    /\ c_config.company_aliases = <<"ACME Corp">>
    /\ c_config.roles = <<"Engineer">>
    /\ LET lines == SplitLines(c_out)
       IN  \E j, k \in 1..Len(lines) :
               /\ j < k
               /\ {"Acme", "ACME Corp"} \subseteq Pieces(lines[j])
               /\ "Engineer" \in Pieces(lines[k])

\* What the criteria are when only the structured spec speaks: lines that
\* each begin with a field label, and nothing of the query
OnlyStructuredLines ==
    LET lines == SplitLines(c_out)
    IN  /\ c_query \notin Pieces(c_out)
        /\ \A k \in 1..Len(lines) :
               /\ lines[k] # <<>>
               /\ lines[k][1] \in {CompanyLabel, RolesLabel, YearsLabel,
                                   CurrentLine, ExtraLabel}
        /\ \A q \in Queries : build_criteria(q, c_config) = c_out

AnyFieldPopulated(cfg) ==
    \/ cfg.company # ""
    \/ cfg.company_aliases # <<>>
    \/ cfg.roles # <<>>
    \/ cfg.graduation_years # <<>>
    \/ cfg.require_current
    \/ cfg.extra # ""

\* C18 as stated: a structured spec with at least one populated field (any
\* of its fields, company_aliases included) alone determines the criteria;
\* otherwise the criteria are the raw query.
SourceSelectionAnyField ==
    c_pc = "done" =>
        IF c_config.kind = "dict" /\ AnyFieldPopulated(c_config)
        THEN OnlyStructuredLines
        ELSE c_out = <<c_query>>

\* C18: a structured spec with at least one of company, roles,
\* graduation_years, require_current, extra populated alone determines the
\* criteria, and the query does not appear in them; with no structured spec,
\* or one where none of those five is populated (company_aliases alone does
\* not count), the criteria are the raw query verbatim.
SourceSelection ==
    c_pc = "done" =>
        IF c_config.kind = "dict" /\ ExpectedLabels(c_config) # <<>>
        THEN OnlyStructuredLines
        ELSE c_out = <<c_query>>

SourceSelectionWitness ==
    /\ c_pc = "done"
    /\ c_config.kind = "dict"
    /\ c_config.company = ""
    /\ c_config.company_aliases # <<>>
    /\ ExpectedLabels(c_config) = <<>>
    /\ c_out = <<c_query>>

\* What the endpoint did to task i, in order: each response it returned and
\* each error it raised.
Outcomes(i) == SelectEvents(log[i], {"response"} \cup RequestErrors)

\* The verdict of one candidate worked through alone, from the endpoint's
\* outcomes for it: attempt `a` of `m` meets outcome O[1].
RECURSIVE Replay(_, _, _)
Replay(O, a, m) ==
    IF a >= m THEN UnknownErrorResult
    ELSE IF O = <<>> THEN NoResult
    ELSE LET o == Head(O)
             parsed == IF o.ev = "response" THEN parse_response(o.text)
                       ELSE Raised(o.ev)
         IN  IF parsed.raised = "" THEN parsed.fr
             ELSE IF a < m - 1 THEN Replay(Tail(O), a + 1, m)
             ELSE IF parsed.raised = "RateLimitError" THEN RateLimitedResult
             ELSE ApiErrorResult(parsed.raised)

Alone(i) == [pos |-> i, person |-> candidates[i],
             fr |-> Replay(Outcomes(i), 0, max_retries)]

\* C19: the lists a run returns are a function of the candidate list, the
\* threshold and each candidate's own sequence of endpoint outcomes: every
\* verdict is the one the candidate gets when worked through alone, and the
\* lists hold them in input order, whatever the order in which the tasks got
\* the permit and finished and whatever the concurrency limit.
SchedulingIndependent ==
    pc = "returned" =>
        LET V == [i \in Positions |-> Alone(i)]
        IN  /\ matched = SelectSeq(V,
                   LAMBDA v : v.fr.match
                              /\ v.fr.confidence >= confidence_threshold)
            /\ rejected = SelectSeq(V,
                   LAMBDA v : ~(v.fr.match
                                /\ v.fr.confidence >= confidence_threshold))

\* Two matched candidates, the second finished first, the first after a retry.
SchedulingIndependentWitness ==
    /\ pc = "returned"
    /\ N = 2
    /\ finished = <<2, 1>>
    /\ Len(matched) = 2
    /\ Len(Outcomes(1)) = 2
    /\ Len(Outcomes(2)) = 1

\* C20: after a failed attempt with index a < max_retries - 1 the task
\* sleeps next, for 2^a seconds when the failure was a rate limit and for 1
\* second when it was any other error, whatever failed before and whatever
\* the other tasks are doing.
BackoffDelay ==
    \A i \in Positions : \A k \in 1..Len(log[i]) :
        (log[i][k].ev \in ExceptionSubclasses
            /\ log[i][k].d < max_retries - 1) =>
            /\ k < Len(log[i])
            /\ log[i][k + 1].ev = "sleep"
            /\ log[i][k + 1].d = IF log[i][k].ev = "RateLimitError"
                                 THEN 2 ^ log[i][k].d
                                 ELSE 1

\* A timeout then a rate limit in one task (sleeps 1 then 2) while the other
\* task slept 1 after a rate limit.
BackoffDelayWitness ==
    /\ N = 2
    /\ Len(Failures(1)) = 2
    /\ Failures(1)[1].ev = "APITimeoutError"
    /\ Failures(1)[2].ev = "RateLimitError"
    /\ Len(Sleeps(1)) = 2
    /\ Sleeps(1)[1].d = 1
    /\ Sleeps(1)[2].d = 2
    /\ wpc[2] = "sleep"
    /\ Len(Sleeps(2)) = 1

\* The last thing recorded for task i
LastEvent(i) == log[i][Len(log[i])]

\* Every outcome in the returned lists pairs the candidate of its task with
\* the verdict parsed from the response to that task's own last request.
PairedWithOwnResponse ==
    pc = "returned" =>
        \A k \in 1..Len(matched \o rejected) :
            LET o == (matched \o rejected)[k]
            IN  /\ o.pos \in Positions
                /\ o.person = candidates[o.pos]
                /\ LastEvent(o.pos).ev = "response" =>
                       o.fr = parse_response(LastEvent(o.pos).text).fr

\* C21: each outcome pairs the candidate its task was given with the verdict
\* derived from the response to that task's own request, never another
\* task's, and no step of the run changes the candidate list.
ResultPairing ==
    /\ [](PairedWithOwnResponse)
    /\ [][candidates' = candidates]_vars

\* Two different candidates got different verdicts, the second finished
\* first.
ResultPairingWitness ==
    /\ pc = "returned"
    /\ candidates = <<"A", "B">>
    /\ finished = <<2, 1>>
    /\ LastEvent(1).ev = "response"
    /\ LastEvent(2).ev = "response"
    /\ LastEvent(1).text.kind = "object"
    /\ LastEvent(2).text.kind = "object"
    /\ LastEvent(1).text # LastEvent(2).text
    /\ Len(matched) = 1
    /\ matched[1].person = "B"

\* What json.loads made of the text the parser was called with
Loaded == json_loads(StripFences(Strip(p_text)))
ParsedAnObject ==
    /\ p_pc = "done"
    /\ p_out.raised = ""
    /\ Loaded.ok
    /\ Loaded.data.kind = "object"

\* C22: when the response parses as a JSON object, the verdict's match is
\* true only if the object's "match" is the boolean true; absent or of any
\* other type, match is false.
MatchOnlyIfBooleanTrue ==
    ParsedAnObject => (p_out.fr.match <=> Loaded.data.match = JBool(TRUE))

IsFalsy(v) == v.t = "absent" \/ ~PyTruthy(v)

\* C23: when the response parses as a JSON object, each of current_company,
\* current_role and graduation_year of the verdict is null whenever the JSON
\* field is missing or falsy, and graduation_year is the string form of a
\* present, truthy value.
OptionalFieldsDefault ==
    ParsedAnObject =>
        /\ IsFalsy(Loaded.data.current_company) =>
               p_out.fr.current_company = PyNone
        /\ IsFalsy(Loaded.data.current_role) => p_out.fr.current_role = PyNone
        /\ IsFalsy(Loaded.data.graduation_year) =>
               p_out.fr.graduation_year = PyNone
        /\ ~IsFalsy(Loaded.data.graduation_year) =>
               p_out.fr.graduation_year
                   = JStr(PyStr(Loaded.data.graduation_year))

ReturnedInsideLoop(i) ==
    /\ log[i] # <<>>
    /\ \/ /\ LastEvent(i).ev = "response"
          /\ result[i] = parse_response(LastEvent(i).text).fr
       \/ /\ LastEvent(i).ev \in ExceptionSubclasses
          /\ LastEvent(i).d = max_retries - 1
          /\ result[i] = IF LastEvent(i).ev = "RateLimitError"
                         THEN RateLimitedResult
                         ELSE ApiErrorResult(LastEvent(i).ev)

TerminalFailures ==
    {RateLimitedResult, ParseFailure, UnknownErrorResult}
    \cup {ApiErrorResult(exc) : exc \in ExceptionSubclasses}

InList(list, o) == \E k \in 1..Len(list) : list[k] = o

\* C25: a candidate whose classification ended in exhausted retries or in a
\* parse failure (match = false, confidence = 0.0) is in rejected and not in
\* matched, whatever the threshold, thresholds at or below 0.0 included.
TerminalFailuresRejected ==
    pc = "returned" =>
        \A i \in Positions :
            result[i] \in TerminalFailures =>
                /\ ~result[i].match
                /\ result[i].confidence = 0
                /\ InList(rejected, Outcome(i))
                /\ ~InList(matched, Outcome(i))

\* Rate limited to the end, with a threshold below 0.0.
TerminalFailuresRejectedWitness ==
    /\ pc = "returned"
    /\ N = 1
    /\ confidence_threshold < 0
    /\ max_retries = 2
    /\ result[1] = RateLimitedResult
    /\ Len(rejected) = 1

\* The tasks that are inside `async with semaphore`
Holders == {i \in Positions : wpc[i] \in {"request", "sleep"}}

\* C26: once the semaphore of a run with limit K exists, the permits held by
\* tasks plus the permits available are K and the available count is within
\* 0..K; a task that has ended holds none, and all K are available when
\* filter_candidates_async returns.
NoPermitLeak ==
    semaphore.created =>
        /\ Cardinality(Holders) + semaphore.value = concurrency
        /\ semaphore.value \in 0..concurrency
        /\ pc = "returned" =>
               /\ Holders = {}
               /\ semaphore.value = concurrency

\* Limit 1, two candidates: one rate limited to the end, one matched.
NoPermitLeakWitness ==
    /\ pc = "returned"
    /\ N = 2
    /\ concurrency = 1
    /\ semaphore.value = 1
    /\ result[1] = RateLimitedResult
    /\ result[2].match

\* C27: a task sleeps only between attempts: every sleep directly follows a
\* failed attempt that was not the final one and is followed by nothing but
\* the next request; the first event is a request, nothing follows a parsed
\* response, and a task that returned after a requests slept a - 1 times.
SleepsOnlyBetweenAttempts ==
    \A i \in Positions :
        /\ log[i] # <<>> => log[i][1].ev = "request"
        /\ \A k \in 1..Len(log[i]) :
               log[i][k].ev = "sleep" =>
                   /\ k > 1
                   /\ log[i][k - 1].ev \in ExceptionSubclasses
                   /\ log[i][k - 1].d < max_retries - 1
                   /\ k < Len(log[i]) => log[i][k + 1].ev = "request"
        /\ wpc[i] = "done" =>
               /\ LastEvent(i).ev # "sleep"
               /\ Len(Requests(i)) \in 1..max_retries
               /\ Len(Sleeps(i)) = Len(Requests(i)) - 1

\* Three attempts, the last one failed too: two sleeps.
SleepsOnlyBetweenAttemptsWitness ==
    /\ N = 1
    /\ max_retries = 3
    /\ wpc[1] = "done"
    /\ Len(Requests(1)) = 3
    /\ Len(Sleeps(1)) = 2
    /\ LastEvent(1).ev = "APITimeoutError"

====
